---- MODULE Spec2Model ----
(***************************************************************************)
(* Model of opentb-cli's command_runner (src/opentb/opentb.py): one run of *)
(* a command ("program" or "discovermotes") against a set of devices over  *)
(* an MQTT broker.  Two threads: the controller thread that executes       *)
(* command_runner.__init__, and the network thread of the MQTT client that *)
(* runs the on_connect / on_message callbacks.                             *)
(***************************************************************************)
EXTENDS Integers, Sequences, FiniteSets, TLC

\* ------------------------------------------------------------------ bounds
\* at most this many identities in an explicit --devices list
MaxTargets == 2
\* at most this many messages published by devices during one run
MaxMsgs == 2
\* seconds of wall-clock time that pass in one step of the clock
TickLen == 30

\* ------------------------------------------------------- program constants
NUMBER_OF_MOTES == 80
NUMBER_OF_BOXES == 14
RESPONSE_TIMEOUT == 60

COMMANDS == {"program", "discovermotes"}
BASE_MOTE_TOPIC == <<"opentestbed", "deviceType", "mote", "deviceId">>
BASE_BOX_TOPIC == <<"opentestbed", "deviceType", "box", "deviceId">>

\* identities of the devices that exist on the testbed
Fleet == {"dev1", "dev2"}

Min(a, b) == IF a < b THEN a ELSE b

Range(s) == {s[k] : k \in 1..Len(s)}

\* ------------------------------------------------------------------ inputs
\* args.devices: the str 'all' when --devices is absent (the default is a
\* str although nargs='+'), otherwise the list of the words given.  A str is
\* a sequence of its characters for len() and iteration.
DefaultDevices == [isStr |-> TRUE, elems |-> <<"a", "l", "l">>]

ListDevices(l) == [isStr |-> FALSE, elems |-> l]

DeviceWords == Fleet \cup {"all"}

DeviceLists ==
  UNION {[1..n -> DeviceWords] : n \in 1..MaxTargets}

\* the lists that name devices start with dev1: a list that starts with
\* dev2 is the same run with the two device names exchanged
DevicesArgs ==
  {DefaultDevices} \cup
  {ListDevices(l) : l \in {x \in DeviceLists :
                             IF "all" \in Range(x) THEN x = <<"all">>
                                                  ELSE x[1] = "dev1"}}

\* self.devices == 'all'
IsAllStr(devs) == devs.isStr

\* self.devices == ['all']
IsAllList(devs) == ~devs.isStr /\ devs.elems = <<"all">>

\* ------------------------------------------------------------------ topics
\* A topic is the sequence of its '/'-separated levels.
BaseTopic(c) == IF c = "program" THEN BASE_MOTE_TOPIC ELSE BASE_BOX_TOPIC

\* '{}/{}/cmd/{}'.format(self.base_topic, dev, self.cmd)
CmdTopic(c, dev) == BaseTopic(c) \o <<dev, "cmd", c>>

\* '{}/{}/resp/{}'.format(base_topic, mote, self.cmd)
MoteRespTopic(c, mote) == BaseTopic(c) \o <<mote, "resp", c>>

\* the topics _subscribe passes to client.subscribe, in order
SubscribeTopics(c, devs) ==
  IF IsAllStr(devs)
    THEN <<MoteRespTopic(c, "+")>>
    ELSE [k \in 1..Len(devs.elems) |-> MoteRespTopic(c, devs.elems[k])]

\* the devices _publish_to_device is called with, in order
PublishTargets(devs) ==
  IF IsAllStr(devs) THEN <<"all">> ELSE devs.elems

\* broker side: does a subscription filter select a topic ('+' = one level)
FilterMatches(f, t) ==
  /\ Len(f) = Len(t)
  /\ \A k \in 1..Len(f) : f[k] = "+" \/ f[k] = t[k]

\* '.' of a pattern compiled without DOTALL matches every character but the
\* line feed
HasLineFeed(level) == \E i \in 1..Len(level) : SubSeq(level, i, i) = "\n"

\* re.compile('<base>/(.+)/resp/<cmd>').match(topic).group(1): the match is
\* anchored at the start only and '.+' is greedy and crosses '/' but no
\* line feed.  The result is the sequence of levels captured, <<>> when
\* there is no match.
PatternEnds(base, c, t) ==
  {k \in (Len(base) + 1)..(Len(t) - 2) :
     /\ SubSeq(t, 1, Len(base)) = base
     /\ \A j \in (Len(base) + 1)..k : ~HasLineFeed(t[j])
     /\ t[k + 1] = "resp"
     /\ t[k + 2] = c}

MaxOf(S) == CHOOSE m \in S : \A n \in S : n <= m

PatternGroup(base, c, t) ==
  IF PatternEnds(base, c, t) = {}
    THEN <<>>
    ELSE SubSeq(t, Len(base) + 1, MaxOf(PatternEnds(base, c, t)))


\* ---------------------------------------------------------------- payloads
\* A response payload: whether json.loads accepts it, whether the parsed
\* object has an 'exception' key, its 'success' field and, for
\* discovermotes, the entries of returnVal.motes.
MoteWithEui == [hasEUI64 |-> TRUE, EUI64 |-> "eui-a", serialport |-> "tty0",
                bootload_success |-> TRUE]

MoteNoEui == [hasEUI64 |-> FALSE, EUI64 |-> "", serialport |-> "tty1",
              bootload_success |-> FALSE]

BadPayload == [parse |-> FALSE, exception |-> FALSE, success |-> "absent",
               motes |-> <<>>]

ExcPayload == [parse |-> TRUE, exception |-> TRUE, success |-> "absent",
               motes |-> <<>>]

FailPayload == [parse |-> TRUE, exception |-> FALSE, success |-> "false",
                motes |-> <<>>]

OkPayload(ms) == [parse |-> TRUE, exception |-> FALSE, success |-> "true",
                  motes |-> ms]

Payloads(c) ==
  {BadPayload, ExcPayload, FailPayload} \cup
  (IF c = "program"
     THEN {OkPayload(<<>>)}
     ELSE {OkPayload(<<MoteWithEui, MoteNoEui>>)})

\* ------------------------------------------------------------- image check
\* s[a:b] of a Python str
Slice(s, a, b) ==
  IF a >= Min(b, Len(s)) THEN "" ELSE SubSeq(s, a + 1, Min(b, Len(s)))

HexDigit(ch) ==
  CASE ch = "0" -> 0 [] ch = "1" -> 1 [] ch = "2" -> 2 [] ch = "3" -> 3
    [] ch = "4" -> 4 [] ch = "5" -> 5 [] ch = "6" -> 6 [] ch = "7" -> 7
    [] ch = "8" -> 8 [] ch = "9" -> 9
    [] ch \in {"A", "a"} -> 10 [] ch \in {"B", "b"} -> 11
    [] ch \in {"C", "c"} -> 12 [] ch \in {"D", "d"} -> 13
    [] ch \in {"E", "e"} -> 14 [] ch \in {"F", "f"} -> 15
    [] OTHER -> -1

\* int(s, 16) of a two-character str; -1 stands for ValueError
HexByte(s) ==
  IF Len(s) # 2 \/ HexDigit(Slice(s, 0, 1)) < 0 \/ HexDigit(Slice(s, 1, 2)) < 0
    THEN -1
    ELSE 16 * HexDigit(Slice(s, 0, 1)) + HexDigit(Slice(s, 1, 2))

\* lines 187-203: the loop over the lines from line k on, with the two flags
RECURSIVE ScanLines(_, _, _, _)
ScanLines(lines, k, found, enabled) ==
  IF k > Len(lines)
    THEN [raised |-> FALSE, enabled |-> enabled]
    ELSE LET line == lines[k]
             found2 == found \/ Slice(line, 0, 15) = ":020000040027D3"
             atAddr == found2 /\ Slice(line, 3, 7) = "FFD4"
             count == HexByte(Slice(line, 1, 3))
         IN  IF atAddr /\ count < 0
               THEN [raised |-> TRUE, enabled |-> enabled]
               ELSE ScanLines(lines, k + 1, found2,
                              enabled \/ (atAddr /\ count > 4
                                 /\ Slice(line, 9, 17) = "FFFFFFF6"))

\* lines 180-205: _check_image
CheckImage(lines) == ScanLines(lines, 1, FALSE, FALSE)

\* hex files: one with the backdoor enabled at 0x0027FFD4, and files that
\* lack the extended address record, have it after the lock-bit record,
\* have another configuration byte, a record of only four bytes, an
\* unreadable byte count, or no line at all
GoodHex == <<":10000000AABBCCDD", ":020000040027D3",
             ":0CFFD400FFFFFFF6000000000000200021">>

HexFiles ==
  {GoodHex,
   <<":0CFFD400FFFFFFF6000000000000200021">>,
   <<":0CFFD400FFFFFFF6000000000000200021", ":020000040027D3">>,
   <<":020000040027D3", ":0CFFD400FFFFFFFF000000000000200018">>,
   <<":020000040027D3", ":04FFD400FFFFFFF637">>,
   <<":020000040027D3", ":ZZFFD400FFFFFFF6">>,
   <<":020000040027D3">>,
   <<>>}

\* ------------------------------------------------------------------- state
VARIABLES
  cmd,          \* self.cmd
  devices,      \* self.devices
  pc,           \* position of the controller thread in __init__
  netpc,        \* state of the MQTT client's network thread
  connected,    \* self.connected
  subs,         \* topics passed to client.subscribe so far, in order
  active,       \* subscriptions the broker has acknowledged
  queueExists,  \* self.cmd_response_success_queue has been created
  queue,        \* number of 'unblock' items in the queue
  pubs,         \* topics of the commands published so far, in order
  device_num,   \* local device_num
  i,            \* number of completed iterations of the wait loop
  timedout,     \* local timedout
  waited,       \* seconds the current queue.get has been blocked
  inbox,        \* the message the network thread is delivering, if any
  sent,         \* number of responses devices have published
  response,     \* self.response
  discovered,   \* self.discovered
  motes,        \* local motes of _print_results
  header,       \* the counts printed in the header line of the report
  report,       \* the per-device lines of the report, in order
  blocked,      \* history: total seconds spent blocked in queue.get, counted
                \* up to twice the timeout
  fullWaits,    \* history: awaits that blocked until a non-zero deadline
  late,         \* history: a message was handled after the wait loop ended
  lost,         \* history: a reply to a published command was not routed
  hexfile,      \* the lines of the file named by the hexfile argument
  brokerConn,   \* the connection of self.mqttclient to the broker
  tmpl,         \* mqttcommon.Topic: the topic template given to Topic()
  actual,       \* mqttcommon.Topic: the topic given to fields_values()
  topicObj,     \* mqttcommon.Topic: the attributes of the Topic object
  extracted,    \* mqttcommon.Topic: the outcome of fields_values()
  grp           \* the outcome of pattern.match(actual).group(1)

\* the variables of a run of command_runner
runVars == <<cmd, devices, pc, netpc, connected, subs, active, queueExists,
             queue, pubs, device_num, i, timedout, waited, inbox, sent,
             response, discovered, motes, header, report, blocked, fullWaits,
             late, lost, hexfile, brokerConn>>

\* the variables of the topic matchers taken on their own
topicVars == <<tmpl, actual, topicObj, extracted, grp>>

vars == <<cmd, devices, pc, netpc, connected, subs, active, queueExists,
          queue, pubs, device_num, i, timedout, waited, inbox, sent,
          response, discovered, motes, header, report, blocked, fullWaits,
          late, lost, hexfile, brokerConn, tmpl, actual, topicObj, extracted,
          grp>>

\* lines 92-95 and the initial values of the attributes and locals of a run
RunStart ==
  /\ pc = "init"
  /\ netpc = "idle"
  /\ connected = FALSE
  /\ subs = <<>>
  /\ active = {}
  /\ queueExists = FALSE
  /\ queue = 0
  /\ pubs = <<>>
  /\ device_num = IF cmd = "program" THEN NUMBER_OF_MOTES ELSE NUMBER_OF_BOXES
  /\ i = 0
  /\ timedout = FALSE
  /\ waited = 0
  /\ inbox = <<>>
  /\ sent = 0
  /\ response = [success_count |-> 0, msg_count |-> 0,
                 failed_msg_topic |-> <<>>, success_msg_topic |-> <<>>]
  /\ discovered = <<>>
  /\ motes = <<>>
  /\ header = <<>>
  /\ report = <<>>
  /\ blocked = 0
  /\ fullWaits = 0
  /\ late = FALSE
  /\ lost = FALSE
  /\ brokerConn = "none"

\* no Topic object is in use
NoTopicObject ==
  /\ tmpl = <<>>
  /\ actual = <<>>
  /\ topicObj = <<>>
  /\ extracted = <<>>
  /\ grp = <<>>

\* main: the arguments of one invocation.  discovermotes never opens the
\* hex file.
Init ==
  /\ cmd \in COMMANDS
  /\ devices \in DevicesArgs
  /\ hexfile \in (IF cmd = "program" THEN HexFiles ELSE {GoodHex})
  /\ RunStart
  /\ NoTopicObject

\* variant: the result of the image check is not asserted
Construct_noAssert ==
  /\ pc = "init"
  /\ pc' = "connect"
  /\ UNCHANGED <<cmd, devices, netpc, connected, subs, active, queueExists,
                 queue, pubs, device_num, i, timedout, waited, inbox, sent,
                 response, discovered, motes, header, report, blocked,
                 fullWaits, late, lost, hexfile, brokerConn, topicVars>>

\* lines 97-121: for program, assert self._check_image(hexfile); an
\* AssertionError, or a ValueError from int(), ends the run
Construct ==
  /\ pc = "init"
  /\ pc' = IF cmd = "program"
               /\ (CheckImage(hexfile).raised \/ ~CheckImage(hexfile).enabled)
             THEN "aborted" ELSE "connect"
  /\ UNCHANGED <<cmd, devices, netpc, connected, subs, active, queueExists,
                 queue, pubs, device_num, i, timedout, waited, inbox, sent,
                 response, discovered, motes, header, report, blocked,
                 fullWaits, late, lost, hexfile, brokerConn, topicVars>>

\* ------------------------------------------------- controller: dispatching
\* lines 124-129: create the client, connect, start the network thread
Connect ==
  /\ pc = "connect"
  /\ pc' = "busywait"
  /\ netpc' = "connecting"
  /\ brokerConn' = "open"
  /\ UNCHANGED <<cmd, devices, connected, subs, active, queueExists, queue,
                 pubs, device_num, i, timedout, waited, inbox, sent, response,
                 discovered, motes, header, report, blocked, fullWaits,
                 late, lost>>
  /\ UNCHANGED <<hexfile, topicVars>>

\* lines 131-132: 'while not self.connected: pass' ends
BusyWaitExit ==
  /\ pc = "busywait"
  /\ connected
  /\ pc' = "mkqueue"
  /\ UNCHANGED <<cmd, devices, netpc, connected, subs, active, queueExists,
                 queue, pubs, device_num, i, timedout, waited, inbox, sent,
                 response, discovered, motes, header, report, blocked,
                 fullWaits, late, lost>>
  /\ UNCHANGED <<hexfile, brokerConn, topicVars>>

\* line 135: create the queue
MkQueue ==
  /\ pc = "mkqueue"
  /\ queueExists' = TRUE
  /\ queue' = 0
  /\ pc' = "publish"
  /\ UNCHANGED <<cmd, devices, netpc, connected, subs, active, pubs,
                 device_num, i, timedout, waited, inbox, sent, response,
                 discovered, motes, header, report, blocked, fullWaits,
                 late, lost>>
  /\ UNCHANGED <<hexfile, brokerConn, topicVars>>

\* lines 138-147: one call of _publish_to_device; after the last one the
\* wait loop starts with timedout = False
Publish ==
  /\ pc = "publish"
  /\ pubs' = Append(pubs, CmdTopic(cmd, PublishTargets(devices)[Len(pubs) + 1]))
  /\ device_num' = IF IsAllStr(devices) THEN device_num ELSE Len(devices.elems)
  /\ pc' = IF Len(pubs) + 1 = Len(PublishTargets(devices))
             THEN "wait" ELSE "publish"
  /\ timedout' = FALSE
  /\ UNCHANGED <<cmd, devices, netpc, connected, subs, active, queueExists,
                 queue, i, waited, inbox, sent, response, discovered, motes,
                 header, report, blocked, fullWaits, late, lost>>
  /\ UNCHANGED <<hexfile, brokerConn, topicVars>>


\* --------------------------------------------------- controller: wait loop
\* variant: the flag is ignored and every await gets the full timeout
Timeout_ignoresFlag(flag) == RESPONSE_TIMEOUT

\* lines 150-153: the timeout of the next queue.get
Timeout(flag) == IF flag THEN 0 ELSE RESPONSE_TIMEOUT

\* position after one more iteration of 'for _ in range(0, device_num)'
AfterIteration == IF i + 1 >= device_num THEN "print_header" ELSE "wait"

\* line 154: queue.get returns an item
AwaitGet ==
  /\ pc = "wait"
  /\ queue > 0
  /\ queue' = queue - 1
  /\ i' = i + 1
  /\ waited' = 0
  /\ pc' = AfterIteration
  /\ UNCHANGED <<cmd, devices, netpc, connected, subs, active, queueExists,
                 pubs, device_num, timedout, inbox, sent, response,
                 discovered, motes, header, report, blocked, fullWaits,
                 late, lost>>
  /\ UNCHANGED <<hexfile, brokerConn, topicVars>>

\* line 154: time passes while queue.get is blocked on the empty queue
Tick ==
  /\ pc = "wait"
  /\ queue = 0
  /\ waited < Timeout(timedout)
  /\ waited' = Min(waited + TickLen, Timeout(timedout))
  /\ blocked' = Min(blocked + (waited' - waited), 2 * RESPONSE_TIMEOUT)
  /\ UNCHANGED <<cmd, devices, pc, netpc, connected, subs, active,
                 queueExists, queue, pubs, device_num, i, timedout, inbox,
                 sent, response, discovered, motes, header, report,
                 fullWaits, late, lost>>
  /\ UNCHANGED <<hexfile, brokerConn, topicVars>>

\* variant: queue.get is called without a timeout and never raises
AwaitEmpty_noTimeout ==
  /\ pc = "wait"
  /\ queue = 0
  /\ FALSE
  /\ UNCHANGED vars

\* variant: on a timeout the command is published again to the first target
AwaitEmpty_republishes ==
  /\ pc = "wait"
  /\ queue = 0
  /\ waited >= Timeout(timedout)
  /\ timedout' = TRUE
  /\ fullWaits' = IF waited > 0 THEN fullWaits + 1 ELSE fullWaits
  /\ i' = i + 1
  /\ waited' = 0
  /\ pc' = AfterIteration
  /\ pubs' = Append(pubs, pubs[1])
  /\ UNCHANGED <<cmd, devices, netpc, connected, subs, active, queueExists,
                 queue, device_num, inbox, sent, response, discovered,
                 motes, header, report, blocked, late, lost>>
  /\ UNCHANGED <<hexfile, brokerConn, topicVars>>

\* lines 155-158: queue.get raises queue.Empty at its deadline
AwaitEmpty ==
  /\ pc = "wait"
  /\ queue = 0
  /\ waited >= Timeout(timedout)
  /\ timedout' = TRUE
  /\ fullWaits' = IF waited > 0 THEN fullWaits + 1 ELSE fullWaits
  /\ i' = i + 1
  /\ waited' = 0
  /\ pc' = AfterIteration
  /\ UNCHANGED <<cmd, devices, netpc, connected, subs, active, queueExists,
                 queue, pubs, device_num, inbox, sent, response, discovered,
                 motes, header, report, blocked, late, lost>>
  /\ UNCHANGED <<hexfile, brokerConn, topicVars>>

\* ------------------------------------------------ controller: aggregation
\* _print_results reads the records while the network thread is still
\* running: the header, the success list and the failed list are read at
\* three different moments.
ReportLines(topics, tag) ==
  [k \in 1..Len(topics) |->
     <<PatternGroup(BASE_MOTE_TOPIC, "program", topics[k]), tag>>]

GroupsOf(topics) ==
  [k \in 1..Len(topics) |-> PatternGroup(BASE_MOTE_TOPIC, "program", topics[k])]

\* lines 304-312 and 329-330: the header line
PrintHeader ==
  /\ pc = "print_header"
  /\ motes' = <<>>
  /\ header' = IF cmd = "program"
                 THEN <<response.success_count, response.msg_count>>
                 ELSE <<Len(discovered)>>
  /\ pc' = IF cmd = "program" THEN "print_ok" ELSE "print_discovered"
  /\ UNCHANGED <<cmd, devices, netpc, connected, subs, active, queueExists,
                 queue, pubs, device_num, i, timedout, waited, inbox, sent,
                 response, discovered, report, blocked, fullWaits, late,
                 lost>>
  /\ UNCHANGED <<hexfile, brokerConn, topicVars>>

\* lines 313-316: one OK line per topic of success_msg_topic
PrintOk ==
  /\ pc = "print_ok"
  /\ motes' = motes \o GroupsOf(response.success_msg_topic)
  /\ report' = report \o ReportLines(response.success_msg_topic, "OK")
  /\ pc' = "print_fail"
  /\ UNCHANGED <<cmd, devices, netpc, connected, subs, active, queueExists,
                 queue, pubs, device_num, i, timedout, waited, inbox, sent,
                 response, discovered, header, blocked, fullWaits, late,
                 lost>>
  /\ UNCHANGED <<hexfile, brokerConn, topicVars>>

\* lines 317-321: one FAIL line per topic of failed_msg_topic
FailedTopics(resp) ==
  IF resp.msg_count > resp.success_count THEN resp.failed_msg_topic ELSE <<>>

PrintFail ==
  /\ pc = "print_fail"
  /\ motes' = motes \o GroupsOf(FailedTopics(response))
  /\ report' = report \o ReportLines(FailedTopics(response), "FAIL")
  /\ pc' = "print_mute"
  /\ UNCHANGED <<cmd, devices, netpc, connected, subs, active, queueExists,
                 queue, pubs, device_num, i, timedout, waited, inbox, sent,
                 response, discovered, header, blocked, fullWaits, late,
                 lost>>
  /\ UNCHANGED <<hexfile, brokerConn, topicVars>>

\* lines 322-325: the MUTE lines, from the local list motes and self.devices
\* variant: the length test is inverted, so MUTE lines are skipped whenever
\* some target is missing from motes
MuteLines_invertedTest(ms, devs) ==
  IF Len(ms) = Len(devs.elems)
    THEN LET NotIn(d) == <<d>> \notin Range(ms)
             silent == SelectSeq(devs.elems, NotIn)
         IN  [k \in 1..Len(silent) |-> <<(<<silent[k]>>), "MUTE">>]
    ELSE <<>>

MuteLines(ms, devs) ==
  IF Len(ms) # Len(devs.elems)
    THEN LET NotIn(d) == <<d>> \notin Range(ms)
             silent == SelectSeq(devs.elems, NotIn)
         IN  [k \in 1..Len(silent) |-> <<(<<silent[k]>>), "MUTE">>]
    ELSE <<>>

PrintMute ==
  /\ pc = "print_mute"
  /\ report' = report \o MuteLines(motes, devices)
  /\ pc' = "loop_stop"
  /\ UNCHANGED <<cmd, devices, netpc, connected, subs, active, queueExists,
                 queue, pubs, device_num, i, timedout, waited, inbox, sent,
                 response, discovered, motes, header, blocked, fullWaits,
                 late, lost>>
  /\ UNCHANGED <<hexfile, brokerConn, topicVars>>

\* lines 331-333: one line per discovery record
PrintDiscovered ==
  /\ pc = "print_discovered"
  /\ report' = discovered
  /\ pc' = "loop_stop"
  /\ UNCHANGED <<cmd, devices, netpc, connected, subs, active, queueExists,
                 queue, pubs, device_num, i, timedout, waited, inbox, sent,
                 response, discovered, motes, header, blocked, fullWaits,
                 late, lost>>
  /\ UNCHANGED <<hexfile, brokerConn, topicVars>>

\* line 163: loop_stop() ends the network thread
LoopStop ==
  /\ pc = "loop_stop"
  /\ netpc' = "stopped"
  /\ pc' = "done"
  /\ UNCHANGED <<cmd, devices, connected, subs, active, queueExists, queue,
                 pubs, device_num, i, timedout, waited, inbox, sent, response,
                 discovered, motes, header, report, blocked, fullWaits,
                 late, lost>>
  /\ UNCHANGED <<hexfile, brokerConn, topicVars>>

\* ------------------------------------------------------- network thread
\* lines 225-227: the broker accepted the connection; on_connect sets the
\* flag before it subscribes
OnConnect ==
  /\ netpc = "connecting"
  /\ connected' = TRUE
  /\ netpc' = "subscribing"
  /\ UNCHANGED <<cmd, devices, pc, subs, active, queueExists, queue, pubs,
                 device_num, i, timedout, waited, inbox, sent, response,
                 discovered, motes, header, report, blocked, fullWaits,
                 late, lost>>
  /\ UNCHANGED <<hexfile, brokerConn, topicVars>>

\* lines 228 and 212-222: one client.subscribe call of _subscribe
Subscribe ==
  /\ netpc = "subscribing"
  /\ subs' = Append(subs, SubscribeTopics(cmd, devices)[Len(subs) + 1])
  /\ netpc' = IF Len(subs) + 1 = Len(SubscribeTopics(cmd, devices))
                THEN "loop" ELSE "subscribing"
  /\ UNCHANGED <<cmd, devices, pc, connected, active, queueExists, queue,
                 pubs, device_num, i, timedout, waited, inbox, sent, response,
                 discovered, motes, header, report, blocked, fullWaits,
                 late, lost>>
  /\ UNCHANGED <<hexfile, brokerConn, topicVars>>

\* the broker registers and acknowledges the subscriptions it was sent, in
\* the order the client sent them
BrokerSubAck ==
  /\ netpc \in {"subscribing", "loop", "dead"}
  /\ \E k \in 1..Len(subs) :
       /\ subs[k] \notin active
       /\ \A j \in 1..(k - 1) : subs[j] \in active
       /\ active' = active \cup {subs[k]}
  /\ UNCHANGED <<cmd, devices, pc, netpc, connected, subs, queueExists,
                 queue, pubs, device_num, i, timedout, waited, inbox, sent,
                 response, discovered, motes, header, report, blocked,
                 fullWaits, late, lost>>
  /\ UNCHANGED <<hexfile, brokerConn, topicVars>>

\* the broker routes a message to this client
Routed(t) == \E f \in active : FilterMatches(f, t)

\* a command addressed to device d has been published
Solicited(d) ==
  \E k \in 1..Len(pubs) : pubs[k] \in {CmdTopic(cmd, d), CmdTopic(cmd, "all")}

\* a device publishes a response on its response topic; the broker routes it
\* to this client when a subscription selects it.  The network thread reads
\* one message at a time and runs the callback on it before it reads the
\* next, so inbox holds the message being delivered.
DeviceResponds ==
  /\ pc # "done"
  /\ sent < MaxMsgs
  /\ \E d \in Fleet, p \in Payloads(cmd) :
       LET t == MoteRespTopic(cmd, d) IN
       /\ Routed(t) \/ Solicited(d)
       /\ Routed(t) => inbox = <<>>
       /\ inbox' = IF Routed(t)
                     THEN Append(inbox, [topic |-> t, payload |-> p])
                     ELSE inbox
       /\ lost' = (lost \/ ~Routed(t))
  /\ sent' = sent + 1
  /\ UNCHANGED <<cmd, devices, pc, netpc, connected, subs, active,
                 queueExists, queue, pubs, device_num, i, timedout, waited,
                 response, discovered, motes, header, report, blocked,
                 fullWaits, late>>
  /\ UNCHANGED <<hexfile, brokerConn, topicVars>>


\* ---------------------------------------------------- response correlator
\* Each handler is a function of the records, the queue and the message; it
\* yields the new records, the new queue and whether an exception escaped
\* from the callback.

\* self.cmd_response_success_queue.put('unblock'): the attribute does not
\* exist before line 135
QueueAfterPut(q, qExists) == IF qExists THEN q + 1 ELSE q

\* lines 268-290
ParseProgramResponse(resp, q, qExists, devs, m) ==
  LET p == m.payload
      counted == [resp EXCEPT !.msg_count = @ + 1]
      recorded ==
        IF p.success = "true"
          THEN [counted EXCEPT !.success_count = @ + 1,
                               !.success_msg_topic = Append(@, m.topic)]
          ELSE [counted EXCEPT !.failed_msg_topic = Append(@, m.topic)]
      puts == IF IsAllList(devs)
                THEN recorded.msg_count = NUMBER_OF_MOTES
                ELSE TRUE
  IN  IF ~p.parse
        THEN [response |-> resp, queue |-> q, raised |-> TRUE]
      ELSE IF p.exception
        THEN [response |-> resp, queue |-> q, raised |-> FALSE]
      ELSE IF p.success = "absent"
        THEN [response |-> counted, queue |-> q, raised |-> TRUE]
      ELSE [response |-> recorded,
            queue |-> IF puts THEN QueueAfterPut(q, qExists) ELSE q,
            raised |-> puts /\ ~qExists]

\* variant: the append is placed after the loop over the motes, so only
\* the last mote of a response is recorded
MoteRecords_appendAfterLoop(box, ms) ==
  IF ms = <<>> THEN <<>>
  ELSE LET m == ms[Len(ms)] IN
       <<[box |-> box,
          port |-> m.serialport,
          eui64 |-> IF m.hasEUI64 THEN <<m.EUI64>> ELSE <<>>,
          status |-> IF m.bootload_success THEN 1 ELSE 0]>>

\* lines 243-254: the records one response adds
MoteRecords(box, ms) ==
  [k \in 1..Len(ms) |->
     [box |-> box,
      port |-> ms[k].serialport,
      eui64 |-> IF ms[k].hasEUI64 THEN <<ms[k].EUI64>> ELSE <<>>,
      status |-> IF ms[k].bootload_success THEN 1 ELSE 0]]

\* lines 231-265
ParseDiscoverResponse(disc, q, qExists, devs, m) ==
  LET p == m.payload
      box == PatternGroup(BASE_BOX_TOPIC, "discovermotes", m.topic)
      appended == disc \o MoteRecords(box, p.motes)
      puts == IF IsAllList(devs)
                THEN Len(appended) = NUMBER_OF_BOXES
                ELSE TRUE
  IN  IF ~p.parse \/ box = <<>> \/ p.success # "true"
        THEN [discovered |-> disc, queue |-> q, raised |-> TRUE]
      ELSE [discovered |-> appended,
            queue |-> IF puts THEN QueueAfterPut(q, qExists) ELSE q,
            raised |-> puts /\ ~qExists]

\* an exception that escapes from a callback either ends the network
\* thread or is swallowed by the client library
AfterCallback(raised) == IF raised THEN {"loop", "dead"} ELSE {"loop"}

Aggregating == pc \in {"print_header", "print_ok", "print_fail", "print_mute",
                       "print_discovered", "loop_stop"}

\* lines 293-300: the network thread delivers the oldest routed message
OnMessage ==
  /\ netpc = "loop"
  /\ inbox # <<>>
  /\ inbox' = Tail(inbox)
  /\ late' = (late \/ Aggregating)
  /\ IF cmd = "program"
       THEN LET r == ParseProgramResponse(response, queue, queueExists,
                                          devices, Head(inbox))
            IN  /\ response' = r.response
                /\ queue' = r.queue
                /\ netpc' \in AfterCallback(r.raised)
                /\ UNCHANGED discovered
       ELSE LET r == ParseDiscoverResponse(discovered, queue, queueExists,
                                           devices, Head(inbox))
            IN  /\ discovered' = r.discovered
                /\ queue' = r.queue
                /\ netpc' \in AfterCallback(r.raised)
                /\ UNCHANGED response
  /\ UNCHANGED <<cmd, devices, pc, connected, subs, active, queueExists, pubs,
                 device_num, i, timedout, waited, sent, motes, header, report,
                 blocked, fullWaits, lost>>
  /\ UNCHANGED <<hexfile, brokerConn, topicVars>>

\* ----------------------------------------------------------- specification
Controller ==
  \/ Construct
  \/ Connect
  \/ BusyWaitExit
  \/ MkQueue
  \/ Publish
  \/ AwaitGet
  \/ Tick
  \/ AwaitEmpty
  \/ PrintHeader
  \/ PrintOk
  \/ PrintFail
  \/ PrintMute
  \/ PrintDiscovered
  \/ LoopStop

Next ==
  \/ Construct
  \/ Connect
  \/ BusyWaitExit
  \/ MkQueue
  \/ Publish
  \/ AwaitGet
  \/ Tick
  \/ AwaitEmpty
  \/ PrintHeader
  \/ PrintOk
  \/ PrintFail
  \/ PrintMute
  \/ PrintDiscovered
  \/ LoopStop
  \/ OnConnect
  \/ Subscribe
  \/ BrokerSubAck
  \/ DeviceResponds
  \/ OnMessage

Spec == Init /\ [][Next]_vars

\* The controller thread is always scheduled and time passes; nothing is
\* assumed about the broker, the devices or the network thread.
LiveSpec == Init /\ [][Next]_vars /\ WF_vars(Controller)


\* ================================================================== claims
\* the run is a program run on an explicit list of device identities
ExplicitProgramRun ==
  /\ cmd = "program"
  /\ ~IsAllStr(devices)
  /\ "all" \notin Range(devices.elems)

NoRepeat(s) == \A a, b \in 1..Len(s) : s[a] = s[b] => a = b

\* number of report lines that name device d
LinesOf(d) == Cardinality({k \in 1..Len(report) : report[k][1] = <<d>>})

HasLine(d, tag) == \E k \in 1..Len(report) : report[k] = <<(<<d>>), tag>>

RecordedTopics == response.success_msg_topic \o response.failed_msg_topic

\* C1: after a program run on an explicit target list, whatever responses
\* arrived (also several from one device), the report gives every target
\* exactly one of OK, FAIL, MUTE and has as many lines as there are targets.
\* Stated for lists without repetition and for runs in which no message was
\* handled after the wait loop ended.
C1_EveryTargetClassifiedOnce ==
  (pc = "done" /\ ExplicitProgramRun /\ NoRepeat(devices.elems)
     /\ ~late)
    => /\ \A d \in Range(devices.elems) : LinesOf(d) = 1
       /\ Len(report) = Len(devices.elems)

C3_ExhaustedIsSticky ==
  /\ []((timedout /\ pc = "wait") => waited = 0)
  /\ [](fullWaits <= 1)
  /\ [][timedout => timedout']_vars
  /\ [][(pc = "wait" /\ queue = 0 /\ i' = i + 1) => timedout']_vars

\* C3 witness: one await ran into its deadline and a later await was done
C3_Witness ==
  /\ timedout
  /\ fullWaits = 1
  /\ i >= 2
  /\ blocked = RESPONSE_TIMEOUT

\* C4: the controller is blocked in the wait loop for at most
\* RESPONSE_TIMEOUT seconds in total.
C4_TotalWaitAtMostOneTimeout == blocked <= RESPONSE_TIMEOUT

\* C5: once the commands are published the controller always finishes the
\* run (report produced, network loop stopped), and when it aggregates
\* every expected unit has been accounted for by an await.
C5_ControllerReachesDone ==
  /\ (pc = "wait") ~> (pc = "done")
  /\ []((Aggregating \/ pc = "done") => i = device_num)

\* C5 witness: a run in which no device responded at all reached Done
C5_Witness ==
  /\ pc = "done"
  /\ sent = 0
  /\ timedout
  /\ i = device_num

\* the step is the correlator handling the oldest message of the inbox
HandlesHead == netpc = "loop" /\ inbox # <<>> /\ inbox' = Tail(inbox)

\* C6: handling a response that carries an exception marker changes no
\* record, no counter and no signal, and leaves the correlator able to
\* process later responses, for both commands.
C6_ExceptionMessageIsNoOp ==
  [][(HandlesHead /\ Head(inbox).payload.parse
        /\ Head(inbox).payload.exception)
       => (UNCHANGED <<response, discovered, queue>> /\ netpc' = "loop")]_vars

\* C7: handling a response whose payload does not parse changes no record,
\* no counter and no signal, and leaves the correlator able to process
\* later responses.
C7_UnparseableMessageIsDropped ==
  [][(HandlesHead /\ ~Head(inbox).payload.parse)
       => (UNCHANGED <<response, discovered, queue>> /\ netpc' = "loop")]_vars

\* C8: when the controller has published a command or waits for responses,
\* every response topic has been subscribed and acknowledged, and no reply
\* to a published command has been lost.
C8_SubscribedBeforePublish ==
  (pubs # <<>> \/ pc = "wait")
    => /\ Range(SubscribeTopics(cmd, devices)) \subseteq active
       /\ ~lost

\* C9: the controller does not stay in the connection busy-wait forever.
C9_BusyWaitEnds == (pc = "busywait") ~> (pc # "busywait")

\* C10: when the target is "all", given by default or as --devices all, the
\* run subscribes to the wildcard response topic and publishes exactly one
\* command, on the topic of "all".
C10_AllUsesWildcard ==
  ((IsAllStr(devices) \/ IsAllList(devices)) /\ netpc = "loop"
     /\ pc = "wait")
    => /\ subs = <<MoteRespTopic(cmd, "+")>>
       /\ pubs = <<CmdTopic(cmd, "all")>>

HasMute == \E k \in 1..Len(report) : report[k][2] = "MUTE"

\* C11: the report of a program run whose target is "all" (the default or
\* --devices all) contains no MUTE line.
C11_NoMuteForAll ==
  (pc = "done" /\ cmd = "program"
     /\ (IsAllStr(devices) \/ IsAllList(devices)))
    => ~HasMute

\* the run produced no effect on the broker and no report
NothingDispatched ==
  /\ netpc = "idle"
  /\ brokerConn = "none"
  /\ subs = <<>>
  /\ pubs = <<>>
  /\ header = <<>>
  /\ report = <<>>

\* C12: for program, when _check_image does not return true the run ends
\* before dispatch: no connection, no subscribe, no publish, no report.
C12_BadImageAborts ==
  (cmd = "program" /\ pc # "init"
     /\ (CheckImage(hexfile).raised \/ ~CheckImage(hexfile).enabled))
    => (pc = "aborted" /\ NothingDispatched)

\* C12 witness: a file whose lock-bit record has another configuration byte
\* was rejected
C12_Witness ==
  /\ cmd = "program"
  /\ hexfile = <<":020000040027D3", ":0CFFD400FFFFFFFF000000000000200018">>
  /\ pc = "aborted"
  /\ NothingDispatched

\* C13: when a run that started the network loop has ended, the broker
\* connection is disconnected and the network loop is stopped.
C13_ConnectionReleasedAtExit ==
  pc = "done" => (netpc = "stopped" /\ brokerConn = "closed")

\* ============================================================ topic matcher
\* mqttcommon.Topic on its own.  A template is the sequence of its levels;
\* a level is a literal or a '{name}' placeholder.  Levels are compared
\* whole.
Lit(x) == [kind |-> "lit", text |-> x]

Field(f) == [kind |-> "field", text |-> f]

Templates ==
  {<<Lit("box"), Field("deviceId"), Lit("resp")>>,
   <<Lit("mote"), Field("deviceId")>>,
   <<Field("deviceId"), Lit("resp"), Lit("program")>>,
   <<Lit("site"), Field("site"), Field("deviceId"), Lit("cmd")>>,
   <<Lit("opentestbed"), Lit("deviceType"), Lit("mote"), Lit("deviceId"),
     Field("deviceId"), Lit("resp"), Lit("program")>>}

\* identities: non-empty strings without '/'; the last holds a line feed
Identities == {"dev1", "resp", "a\nb"}

\* common.topic_fields(topic): the names of the placeholders, in order
TopicFields(t) ==
  LET IsField(l) == l.kind = "field"
      fs == SelectSeq(t, IsField)
  IN  [k \in 1..Len(fs) |-> fs[k].text]

\* topic.format(**values) on a template
Format(t, values) ==
  [k \in 1..Len(t) |->
     IF t[k].kind = "field" THEN values[t[k].text] ELSE t[k].text]

\* lines 149-153: every named field becomes the '+' wildcard
TopicWildcard(t, fields) == Format(t, [f \in Range(fields) |-> "+"])

\* lines 155-159: every named field becomes the group (?P<name>[^/]+)
TopicMatchRe(t, fields) ==
  [k \in 1..Len(t) |->
     IF t[k].kind = "field" /\ t[k].text \in Range(fields)
       THEN [kind |-> "group", text |-> t[k].text]
       ELSE [kind |-> "lit", text |-> t[k].text]]

\* match_re.match(topic): anchored at the start of the topic, not at its
\* end; a group takes one non-empty level
ReMatches(re, topic) ==
  /\ Len(topic) >= Len(re)
  /\ \A k \in 1..Len(re) :
       IF re[k].kind = "group" THEN topic[k] # "" ELSE topic[k] = re[k].text

\* match.group(f)
ReGroup(re, topic, f) ==
  topic[CHOOSE j \in 1..Len(re) : re[j].kind = "group" /\ re[j].text = f]

\* lines 127-131: the attributes Topic.__init__ computes
NewTopic(t) ==
  [topic |-> t,
   fields |-> TopicFields(t),
   subscribe_topic |-> TopicWildcard(t, TopicFields(t)),
   match_re |-> TopicMatchRe(t, TopicFields(t))]

\* lines 134-138: fields_values; match is None when the topic does not
\* match, and match.group then raises AttributeError
FieldsValues(obj, topic) ==
  IF ReMatches(obj.match_re, topic)
    THEN [raised |-> FALSE,
          fields |-> [f \in Range(obj.fields) |->
                        ReGroup(obj.match_re, topic, f)]]
    ELSE [raised |-> TRUE, fields |-> <<>>]

\* the topics given to a matcher: the template with identities substituted,
\* a response topic of command_runner, and those topics cut short, extended
\* by a level, or with one level replaced
Substituted(t) ==
  {Format(t, v) : v \in [Range(TopicFields(t)) -> Identities]}

Variations(g) ==
  {g}
    \cup {SubSeq(g, 1, n) : n \in 0..(Len(g) - 1)}
    \cup {g \o <<"extra">>}
    \cup {[g EXCEPT ![k] = "other"] : k \in 1..Len(g)}

ActualTopics(t, c) ==
  UNION {Variations(g) :
           g \in Substituted(t) \cup {MoteRespTopic(c, id) : id \in Identities}}

TopicInit ==
  /\ cmd \in COMMANDS
  /\ devices = DefaultDevices
  /\ hexfile = GoodHex
  /\ RunStart
  /\ tmpl \in Templates
  /\ actual \in ActualTopics(tmpl, cmd)
  /\ topicObj = <<>>
  /\ extracted = <<>>
  /\ grp = <<>>

\* lines 127-132: Topic(tmpl)
TopicNew ==
  /\ topicObj = <<>>
  /\ topicObj' = <<NewTopic(tmpl)>>
  /\ UNCHANGED <<runVars, tmpl, actual, extracted, grp>>

\* lines 134-138: topic.fields_values(actual)
TopicFieldsValues ==
  /\ topicObj # <<>>
  /\ extracted = <<>>
  /\ extracted' = <<FieldsValues(topicObj[1], actual)>>
  /\ UNCHANGED <<runVars, tmpl, actual, topicObj, grp>>

\* opentb.py lines 237-238 and 306-314: pattern.match(actual).group(1)
PatternMatch ==
  /\ grp = <<>>
  /\ grp' = <<PatternGroup(BaseTopic(cmd), cmd, actual)>>
  /\ UNCHANGED <<runVars, tmpl, actual, topicObj, extracted>>

TopicNext ==
  \/ TopicNew
  \/ TopicFieldsValues
  \/ PatternMatch

TopicSpec == TopicInit /\ [][TopicNext]_vars

\* C14: round trip.  When the topic is the template with identities
\* substituted, fields_values returns exactly those identities; when the
\* topic is a response topic of the command with an identity substituted,
\* the response pattern's group 1 is exactly that identity.
C14_TopicRoundTrip ==
  /\ \A v \in [Range(TopicFields(tmpl)) -> Identities] :
       (extracted # <<>> /\ actual = Format(tmpl, v))
         => (~extracted[1].raised /\ extracted[1].fields = v)
  /\ \A id \in Identities :
       (grp # <<>> /\ actual = MoteRespTopic(cmd, id)) => grp[1] = <<id>>

\* C15: fields_values fails on every topic whose number of levels differs
\* from the template's, and never returns an identity for it.
C15_SegmentCountMismatchFails ==
  (extracted # <<>> /\ Len(actual) # Len(tmpl)) => extracted[1].raised

\* ============================================== awaits, signals and records
\* the number of response units the run has to await
ExpectedCount ==
  IF IsAllStr(devices) \/ IsAllList(devices)
    THEN (IF cmd = "program" THEN NUMBER_OF_MOTES ELSE NUMBER_OF_BOXES)
    ELSE Len(devices.elems)

\* C16: the wait loop is entered with an expected count equal to the length
\* of an explicit target list, or to the fleet constant of the command when
\* the target is "all" (default or --devices all), and it performs exactly
\* that many awaits.
C16_AwaitCountMatchesTargets ==
  /\ pc = "wait" => device_num = ExpectedCount
  /\ (Aggregating \/ pc = "done") => i = ExpectedCount

\* the head of the inbox parses, carries no exception marker, has a success
\* field and arrived on a response topic of the command
WellFormedHead ==
  /\ inbox # <<>>
  /\ Head(inbox).payload.parse
  /\ ~Head(inbox).payload.exception
  /\ Head(inbox).payload.success # "absent"
  /\ \E d \in Fleet : Head(inbox).topic = MoteRespTopic(cmd, d)

\* C17: once the completion queue exists, handling a well-formed response
\* puts exactly one signal on it, for both commands, whatever the success
\* field and the target set.
C17_OneSignalPerResponse ==
  [][(HandlesHead /\ queueExists /\ WellFormedHead)
       => queue' = queue + 1]_vars

\* C18: for program there is at most one record per device identity: no
\* topic is recorded twice and the message count does not exceed the number
\* of distinct responders.
C18_OneRecordPerIdentity ==
  cmd = "program"
    => /\ NoRepeat(RecordedTopics)
       /\ response.msg_count <= Cardinality(Range(RecordedTopics))

\* C19: while the aggregator runs, no callback of the correlator changes a
\* record or a counter.
C19_NoWriteDuringAggregation ==
  [][(Aggregating /\ HandlesHead) => UNCHANGED <<response, discovered>>]_vars

\* C20: for discovermotes the discovery list only grows by appending: a
\* successful response of box d adds one record per reported mote, in
\* order, each tagged with d, with the mote's serial port and with the
\* EUI64 absent when the mote has none; any other step leaves the list as
\* it is.
C20_DiscoveryAppendOnly ==
  [][cmd = "discovermotes" =>
       IF HandlesHead /\ WellFormedHead /\ Head(inbox).payload.success = "true"
         THEN LET ms == Head(inbox).payload.motes
                  n == Len(discovered)
              IN  /\ Len(discovered') = n + Len(ms)
                  /\ SubSeq(discovered', 1, n) = discovered
                  /\ \A k \in 1..Len(ms) :
                       /\ Head(inbox).topic
                            = MoteRespTopic(cmd, discovered'[n + k].box[1])
                       /\ discovered'[n + k].port = ms[k].serialport
                       /\ (discovered'[n + k].eui64 = <<>>) = ~ms[k].hasEUI64
                       /\ ms[k].hasEUI64
                            => discovered'[n + k].eui64 = <<ms[k].EUI64>>
         ELSE discovered' = discovered]_vars

\* C20 witness: one box has reported its two motes twice and the list holds
\* the four records, the mote without EUI64 recorded as absent both times
C20_Witness ==
  /\ cmd = "discovermotes"
  /\ Len(discovered) = 4
  /\ \A k \in 1..4 : discovered[k].box = <<"dev1">>
  /\ discovered[1] = discovered[3]
  /\ discovered[2] = discovered[4]
  /\ discovered[2].eui64 = <<>>

\* ================================================ dispatch and completion
\* C21: for an explicit target list the commands published so far are, in
\* list order, one per entry of the list, each on the topic
\* '<base>/<identity>/cmd/<cmd>'; once the wait loop has started there is
\* exactly one per entry, and none is added later in the run, whatever
\* timed out, failed or stayed unanswered.
C21_OneCommandPerTarget ==
  ~IsAllStr(devices)
    => /\ Len(pubs) <= Len(devices.elems)
       /\ \A k \in 1..Len(pubs) :
            pubs[k] = BaseTopic(cmd) \o <<devices.elems[k], "cmd", cmd>>
       /\ (pc = "wait" \/ Aggregating \/ pc = "done")
            => Len(pubs) = Len(devices.elems)

\* C21 witness: a program run on two targets has ended after a failed
\* response and a timeout, with the two commands published once each
C21_Witness ==
  /\ pc = "done"
  /\ cmd = "program"
  /\ devices = ListDevices(<<"dev1", "dev2">>)
  /\ timedout
  /\ response.failed_msg_topic # <<>>
  /\ pubs = <<BASE_MOTE_TOPIC \o <<"dev1", "cmd", "program">>,
              BASE_MOTE_TOPIC \o <<"dev2", "cmd", "program">> >>

\* C22: whenever the correlator handles an inbound message, the completion
\* queue has already been created by the controller.
C22_QueueExistsWhenHandling ==
  [][HandlesHead => queueExists]_vars

\* device d has a recorded response
Answered(d) ==
  IF cmd = "program"
    THEN MoteRespTopic(cmd, d) \in Range(RecordedTopics)
    ELSE \E k \in 1..Len(discovered) : discovered[k].box = <<d>>

\* C23: when a run on an explicit target list has ended without any await
\* timing out, every identity of the list has a recorded response.
C23_NoTimeoutMeansAllAnswered ==
  (pc = "done" /\ ~IsAllStr(devices) /\ "all" \notin Range(devices.elems)
     /\ ~timedout)
    => \A d \in Range(devices.elems) : Answered(d)

====
